---- MODULE Spec2Model ----
(***************************************************************************)
(* Model of IniFile (src/src/common/inifile.cpp): a store kept in an INI   *)
(* file, edited through QSettings handles on a private temporary copy and  *)
(* published by delete-and-copy to the original file or to its backup      *)
(* ("~" appended).                                                         *)
(*                                                                         *)
(* The file system is a function from paths to file contents.  A content   *)
(* is the text stored under the key meta/file_version, the one key of the  *)
(* model's files.  QSettings and QFile are the code's collaborators.  The     *)
(* QSettings objects of one file in one process share their unsynced       *)
(* writes, so these are kept per file; a handle is its identity.  Every    *)
(* call that can fail in the environment (QFile::remove, QFile::copy,      *)
(* QSettings::status) takes its outcome from a parameter of the action.    *)
(***************************************************************************)
EXTENDS Integers, Sequences, FiniteSets, TLC

\* Bounds of the model.
MaxHandles == 2
MaxVersion == 0

\* mFileVersion of a file without a readable meta/file_version.
UnknownVersion == -1

Versions == (UnknownVersion - 1)..MaxVersion
HandleIds == 1..MaxHandles
StoreIds == {1}

\* The objects of a process that opens the path twice.
PeerIds == {1, 2}

\* The pending text of meta/file_version: none, or <<text>>.
NoWrite == <<>>

(***************************************************************************)
(* Paths                                                                   *)
(***************************************************************************)
\* The path every store of the model is opened on.
Path == "a.ini"

\* mFilepath.toStr() % '~'
Tilde(p) == p \o "~"

\* The file in the temporary directory: the hash of the path that is passed
\* in, under EDA4U/.  SHA-256 is modelled as injective: distinct paths give
\* distinct names.
TmpPathOf(p) == "EDA4U/#" \o p

TmpPaths == {TmpPathOf(Path), TmpPathOf(Tilde(Path))}

AllPaths == {Path, Tilde(Path)} \cup TmpPaths

(***************************************************************************)
(* The text of meta/file_version                                           *)
(***************************************************************************)
DigitChars == <<"0", "1", "2", "3", "4", "5", "6", "7", "8", "9">>

RECURSIVE DigitsOf(_)
DigitsOf(n) ==
    IF n < 10 THEN <<DigitChars[n + 1]>>
    ELSE DigitsOf(n \div 10) \o <<DigitChars[(n % 10) + 1]>>

\* QString::number(int): decimal, a leading "-" for a negative number.
NumberToStr(n) == IF n < 0 THEN <<"-">> \o DigitsOf(-n) ELSE DigitsOf(n)

IsDigit(c) == \E i \in 1..10 : DigitChars[i] = c

DigitValue(c) == (CHOOSE i \in 1..10 : DigitChars[i] = c) - 1

RECURSIVE DigitsValue(_)
DigitsValue(s) ==
    IF s = <<>> THEN 0
    ELSE 10 * DigitsValue(SubSeq(s, 1, Len(s) - 1)) + DigitValue(s[Len(s)])

\* QVariant::toInt(&ok) of the stored text: ok is false for a missing key
\* (the empty text) and for a text that is no decimal number.
StrToInt(s) ==
    LET neg == s # <<>> /\ s[1] = "-"
        digits == IF neg THEN Tail(s) ELSE s
        ok == digits # <<>> /\ \A i \in 1..Len(digits) : IsDigit(digits[i])
    IN [ok |-> ok,
        val |-> IF ok THEN (IF neg THEN -DigitsValue(digits) ELSE DigitsValue(digits))
                ELSE 0]

(***************************************************************************)
(* File contents and the file system                                       *)
(***************************************************************************)
Content(ver) == [exists |-> TRUE, ver |-> ver]

\* No file at the path.
NoFile == [exists |-> FALSE, ver |-> <<>>]

\* A file of zero bytes.
EmptyContent == Content(<<>>)

Exists(f, p) == f[p].exists

\* QFile::remove(p): fails on a file that does not exist, else as the
\* environment decides.
RemoveResult(f, p, ok) == Exists(f, p) /\ ok

RemoveFile(f, p, ok) == IF RemoveResult(f, p, ok) THEN [f EXCEPT ![p] = NoFile] ELSE f

\* QFile::copy(from, to): fails when the source is missing or the
\* destination exists, else as the environment decides.
CopyResult(f, from, to, ok) == Exists(f, from) /\ ~Exists(f, to) /\ ok

CopyFile(f, from, to, ok) == IF CopyResult(f, from, to, ok) THEN [f EXCEPT ![to] = f[from]] ELSE f

(***************************************************************************)
(* QSettings                                                               *)
(***************************************************************************)
\* The unsynced writes to one file: none, or <<text>> for meta/file_version.
NoPending == NoWrite

\* A sync that reports a clean status and writes nothing.
SyncFileNothingWritten(f, pd, tmp, ok) == f

\* QSettings::sync() ending with a clean status writes the pending value
\* over the file's; without pending writes it leaves the file alone
\* (and does not create it).  With a non-clean status nothing is written
\* and the writes stay pending.
SyncFile(f, pd, tmp, ok) ==
    IF ok /\ pd[tmp] # NoPending
    THEN [f EXCEPT ![tmp] = Content(pd[tmp][1])]
    ELSE f

SyncPending(pd, tmp, ok) == IF ok THEN [pd EXCEPT ![tmp] = NoPending] ELSE pd

\* QSettings::setValue("meta/file_version", text) through a handle on the
\* file tmp.
SetVersionKey(pd, tmp, text) == [pd EXCEPT ![tmp] = <<text>>]

\* QSettings::value("meta/file_version") through a handle on the file tmp.
VersionKey(f, pd, tmp) == IF pd[tmp] # NoWrite THEN pd[tmp][1] ELSE f[tmp].ver

RemoveAt(s, i) == SubSeq(s, 1, i - 1) \o SubSeq(s, i + 1, Len(s))

Range(s) == {s[i] : i \in 1..Len(s)}

\* The address of a new QSettings object: the first one no live handle of
\* the store has.
FreshId(s) == CHOOSE id \in HandleIds : id \notin Range(s) /\ \A j \in 1..(id - 1) : j \in Range(s)

(***************************************************************************)
(* The IniFile object                                                      *)
(***************************************************************************)
Store(filepath, tmp, readOnly, settings, version) ==
    [alive |-> TRUE, mFilepath |-> filepath, mTmpFilepath |-> tmp,
     mIsReadOnly |-> readOnly, mSettings |-> settings, mFileVersion |-> version]

\* No object.
NoStore ==
    [alive |-> FALSE, mFilepath |-> "", mTmpFilepath |-> "", mIsReadOnly |-> FALSE,
     mSettings |-> <<>>, mFileVersion |-> UnknownVersion]

\* What a method leaves: the files, the pending writes, the object, the
\* result ("ok" or the exception) and the steps it took.
Result(f, pd, st, res, did) == [fs |-> f, pend |-> pd, st |-> st, res |-> res, did |-> did]

\* createQSettings(): a new handle on mTmpFilepath, appended to mSettings
\* unless its status is not clean.  A file that does not exist is no error
\* for QSettings.
CreateQSettings(f, pd, st, ok) ==
    IF ok
    THEN Result(f, pd, [st EXCEPT !.mSettings = Append(@, FreshId(@))], "ok", {"acquire"})
    ELSE Result(f, pd, st, "IOError", {"acquire"})

\* A release that removes and deletes the handle whatever its status.
ReleaseQSettingsAlways(f, pd, st, i, ok) ==
    Result(SyncFile(f, pd, st.mTmpFilepath, ok), SyncPending(pd, st.mTmpFilepath, ok),
           [st EXCEPT !.mSettings = RemoveAt(@, i)], "ok", {"flush"})

\* releaseQSettings(settings): sync, and removeOne + delete only when the
\* status is clean.  settings is the i-th handle of mSettings.
ReleaseQSettings(f, pd, st, i, ok) ==
    Result(SyncFile(f, pd, st.mTmpFilepath, ok), SyncPending(pd, st.mTmpFilepath, ok),
           [st EXCEPT !.mSettings = IF ok THEN RemoveAt(@, i) ELSE @],
           IF ok THEN "ok" ELSE "retained", {"flush"})

\* A choice that takes the backup whenever it exists.
ChosenSourceIgnoringRestore(f, filepath, restore) ==
    IF ~Exists(f, Tilde(filepath)) THEN filepath ELSE Tilde(filepath)

\* The constructor's choice between the original file and the backup.
ChosenSource(f, filepath, restore) ==
    IF (~restore) \/ ~Exists(f, Tilde(filepath)) THEN filepath ELSE Tilde(filepath)

\* A temporary file named by the hash of mFilepath.
ShadowPathOfFilepath(f, filepath, restore) == TmpPathOf(filepath)

\* The constructor's temporary file: the hash of the chosen file's path.
ShadowPath(f, filepath, restore) == TmpPathOf(ChosenSource(f, filepath, restore))

\* mFileVersion as the constructor reads it from the handle.
ReadFileVersion(text) ==
    LET r == StrToInt(text) IN IF r.ok THEN r.val ELSE UnknownVersion

\* A method's result with its outcome and steps restated by the caller.
After(r, res, did) == Result(r.fs, r.pend, r.st, res, did)

\* The constructor's last part: the file version is read through a handle
\* that is then released.  f is the file system after the copy.
ConstructRead(f, pd, st, env) ==
    IF CreateQSettings(f, pd, st, env.acq).res # "ok"
    THEN Result(f, pd, NoStore, "IOError", {"delete", "copy", "acquire"})
    ELSE After(ReleaseQSettings(f, pd,
                   [CreateQSettings(f, pd, st, env.acq).st
                       EXCEPT !.mFileVersion = ReadFileVersion(VersionKey(f, pd, st.mTmpFilepath))],
                   Len(st.mSettings) + 1, env.fl),
               "ok", {"delete", "copy", "acquire", "flush"})

\* The constructor's copy of the chosen file ini to the temporary file tmp.
\* f is the file system after the removal of a stale temporary file.
ConstructCopy(f, pd, filepath, readOnly, env, ini, tmp) ==
    IF ~CopyResult(f, ini, tmp, env.cp)
    THEN Result(f, pd, NoStore, "IOError", {"delete", "copy"})
    ELSE ConstructRead(CopyFile(f, ini, tmp, env.cp), pd,
                       Store(filepath, tmp, readOnly, <<>>, UnknownVersion), env)

\* A constructor that looks for mFilepath, whichever file it has chosen.
ConstructFromFilepathChecked(f, pd, filepath, readOnly, env, ini, tmp) ==
    IF ~Exists(f, filepath) THEN Result(f, pd, NoStore, "NotFound", {})
    ELSE IF Exists(f, tmp) /\ ~RemoveResult(f, tmp, env.rm)
    THEN Result(f, pd, NoStore, "IOError", {"delete"})
    ELSE ConstructCopy(RemoveFile(f, tmp, env.rm), pd, filepath, readOnly, env, ini, tmp)

\* The constructor once the file ini and the temporary file tmp are chosen.
ConstructFrom(f, pd, filepath, readOnly, env, ini, tmp) ==
    IF ~Exists(f, ini) THEN Result(f, pd, NoStore, "NotFound", {})
    ELSE IF Exists(f, tmp) /\ ~RemoveResult(f, tmp, env.rm)
    THEN Result(f, pd, NoStore, "IOError", {"delete"})
    ELSE ConstructCopy(RemoveFile(f, tmp, env.rm), pd, filepath, readOnly, env, ini, tmp)

\* IniFile::IniFile(filepath, restore, readOnly).  env: the outcomes of
\* QFile::remove (rm), QFile::copy (cp), the new handle's status (acq) and
\* the status after the sync in releaseQSettings (fl).  A constructor that
\* throws leaves no object, and its destructor does not run.
Construct(f, pd, filepath, restore, readOnly, env) ==
    ConstructFrom(f, pd, filepath, readOnly, env,
                  ChosenSource(f, filepath, restore), ShadowPath(f, filepath, restore))

\* A destructor that returns after deleting leftover handles.
DestructReturningOnLeak(f, pd, st, env) ==
    IF st.mSettings # <<>>
    THEN Result(f, [pd EXCEPT ![st.mTmpFilepath] = NoPending], NoStore, "ok", {})
    ELSE Result(IF ~st.mIsReadOnly
                THEN RemoveFile(RemoveFile(f, st.mTmpFilepath, env.rm1), Tilde(st.mFilepath), env.rm2)
                ELSE RemoveFile(f, st.mTmpFilepath, env.rm1),
                [pd EXCEPT ![st.mTmpFilepath] = NoPending], NoStore, "ok", {"delete"})

\* A destructor that removes mFilepath~ of a read-only object too.
DestructRemovingBackupAlways(f, pd, st, env) ==
    Result(RemoveFile(RemoveFile(f, st.mTmpFilepath, env.rm1), Tilde(st.mFilepath), env.rm2),
           [pd EXCEPT ![st.mTmpFilepath] = NoPending], NoStore, "ok", {"delete"})

\* A destructor that removes mFilepath where the code removes mFilepath~.
DestructRemovingOriginal(f, pd, st, env) ==
    Result(IF ~st.mIsReadOnly
           THEN RemoveFile(RemoveFile(f, st.mTmpFilepath, env.rm1), st.mFilepath, env.rm2)
           ELSE RemoveFile(f, st.mTmpFilepath, env.rm1),
           [pd EXCEPT ![st.mTmpFilepath] = NoPending], NoStore, "ok", {"delete"})

\* IniFile::~IniFile().  env: the outcomes of the two QFile::remove calls.
\* The leftover handles are deleted, and their unsynced writes are lost with
\* the temporary file.
Destruct(f, pd, st, env) ==
    LET f1 == RemoveFile(f, st.mTmpFilepath, env.rm1)
        f2 == IF ~st.mIsReadOnly THEN RemoveFile(f1, Tilde(st.mFilepath), env.rm2) ELSE f1
    IN Result(f2, [pd EXCEPT ![st.mTmpFilepath] = NoPending], NoStore, "ok", {"delete"})

\* The number of handles the destructor's warning counts.
LeakCount(st) == Len(st.mSettings)

\* IniFile::setFileVersion(version).  env: the new handle's status (acq) and
\* the status after the sync in releaseQSettings (fl).
SetFileVersion(f, pd, st, version, env) ==
    IF CreateQSettings(f, pd, st, env.acq).res # "ok"
    THEN Result(f, pd, st, "IOError", {"acquire"})
    ELSE After(ReleaseQSettings(f, SetVersionKey(pd, st.mTmpFilepath, NumberToStr(version)),
                   [CreateQSettings(f, pd, st, env.acq).st EXCEPT !.mFileVersion = version],
                   Len(st.mSettings) + 1, env.fl),
               "ok", {"acquire", "flush"})

\* A remove() that deletes the temporary file whatever mSettings holds.
RemoveShadowAlways(f, pd, st, env) ==
    IF st.mIsReadOnly THEN Result(f, pd, st, "LogicError", {})
    ELSE Result(RemoveFile(RemoveFile(RemoveFile(f, st.mFilepath, env.rm1),
                                      Tilde(st.mFilepath), env.rm2),
                           st.mTmpFilepath, env.rm3),
                pd, st,
                IF \/ Exists(f, st.mFilepath) /\ ~env.rm1
                   \/ Exists(f, Tilde(st.mFilepath)) /\ ~env.rm2
                   \/ Exists(f, st.mTmpFilepath) /\ ~env.rm3
                THEN "IOError" ELSE "ok",
                {"delete"})

\* A remove() that throws at the first QFile::remove that fails.
RemoveStoppingAtFailure(f, pd, st, env) ==
    IF st.mIsReadOnly THEN Result(f, pd, st, "LogicError", {})
    ELSE IF Exists(f, st.mFilepath) /\ ~env.rm1 THEN Result(f, pd, st, "IOError", {"delete"})
    ELSE IF Exists(f, Tilde(st.mFilepath)) /\ ~env.rm2
    THEN Result(RemoveFile(f, st.mFilepath, env.rm1), pd, st, "IOError", {"delete"})
    ELSE Result(IF st.mSettings = <<>>
                THEN RemoveFile(RemoveFile(RemoveFile(f, st.mFilepath, env.rm1),
                                           Tilde(st.mFilepath), env.rm2),
                                st.mTmpFilepath, env.rm3)
                ELSE RemoveFile(RemoveFile(f, st.mFilepath, env.rm1), Tilde(st.mFilepath), env.rm2),
                pd, st,
                IF st.mSettings = <<>> /\ Exists(f, st.mTmpFilepath) /\ ~env.rm3
                THEN "IOError" ELSE "ok",
                {"delete"})

\* IniFile::remove().  env: the outcomes of the three QFile::remove calls.
Remove(f, pd, st, env) ==
    LET p == st.mFilepath
        f1 == RemoveFile(f, p, env.rm1)
        f2 == RemoveFile(f1, Tilde(p), env.rm2)
        f3 == IF st.mSettings = <<>> THEN RemoveFile(f2, st.mTmpFilepath, env.rm3) ELSE f2
        success == /\ Exists(f, p) => RemoveResult(f, p, env.rm1)
                   /\ Exists(f1, Tilde(p)) => RemoveResult(f1, Tilde(p), env.rm2)
                   /\ (st.mSettings = <<>> /\ Exists(f2, st.mTmpFilepath))
                         => RemoveResult(f2, st.mTmpFilepath, env.rm3)
    IN IF st.mIsReadOnly THEN Result(f, pd, st, "LogicError", {})
       ELSE Result(f3, pd, st, IF success THEN "ok" ELSE "IOError", {"delete"})

\* A save() with its two targets exchanged.
TargetOfExchanged(filepath, toOriginal) == IF toOriginal THEN Tilde(filepath) ELSE filepath

\* The file save() writes.
TargetOf(filepath, toOriginal) == IF toOriginal THEN filepath ELSE Tilde(filepath)

\* A loop that syncs every handle and never looks at a status.
SyncAllUnchecked(f, pd, st, fl) ==
    Result(SyncFile(f, pd, st.mTmpFilepath, st.mSettings # <<>> /\ fl # 1),
           SyncPending(pd, st.mTmpFilepath, st.mSettings # <<>> /\ fl # 1), st, "ok", {"flush"})

\* save()'s loop over mSettings: every handle is synced until the first one
\* whose status is not clean (fl, 0 for none).
SyncAll(f, pd, st, fl) ==
    LET n == Len(st.mSettings)
        ok == n >= 1 /\ fl # 1
    IN Result(SyncFile(f, pd, st.mTmpFilepath, ok), SyncPending(pd, st.mTmpFilepath, ok), st,
              IF fl \in 1..n THEN "IOError" ELSE "ok", {"flush"})

\* save()'s copy of the temporary file to target, and its last check.  f is
\* the file system after the removal of the target.
SaveCopy(f, pd, st, target, env) ==
    IF ~CopyResult(f, st.mTmpFilepath, target, env.cp)
    THEN Result(f, pd, st, "IOError", {"flush", "delete", "copy"})
    ELSE IF ~Exists(CopyFile(f, st.mTmpFilepath, target, env.cp), target)
    THEN Result(CopyFile(f, st.mTmpFilepath, target, env.cp), pd, st, "IOError",
                {"flush", "delete", "copy"})
    ELSE Result(CopyFile(f, st.mTmpFilepath, target, env.cp), pd, st, "ok",
                {"flush", "delete", "copy"})

\* save() after its loop over mSettings (r): the removal of the target, and
\* the process dying right after it (crash), which leaves no object and
\* runs no destructor.
SavePublish(r, target, env) ==
    IF r.res # "ok" THEN After(r, "IOError", {"flush"})
    ELSE IF Exists(r.fs, target) /\ ~RemoveResult(r.fs, target, env.rm)
    THEN After(r, "IOError", {"flush", "delete"})
    ELSE IF env.crash
    THEN Result(RemoveFile(r.fs, target, env.rm), [p \in TmpPaths |-> NoPending], NoStore,
                "crash", {"flush", "delete"})
    ELSE SaveCopy(RemoveFile(r.fs, target, env.rm), r.pend, r.st, target, env)

\* A save() without the check of mIsReadOnly.
SaveUnchecked(f, pd, st, toOriginal, env) ==
    SavePublish(SyncAll(f, pd, st, env.fl), TargetOf(st.mFilepath, toOriginal), env)

\* IniFile::save(toOriginal).  env: the first handle whose status is not
\* clean after its sync (fl, 0 for none), the outcomes of QFile::remove (rm)
\* and QFile::copy (cp), and whether the process dies between the two
\* (crash).
Save(f, pd, st, toOriginal, env) ==
    IF st.mIsReadOnly THEN Result(f, pd, st, "LogicError", {})
    ELSE SavePublish(SyncAll(f, pd, st, env.fl), TargetOf(st.mFilepath, toOriginal), env)

\* create() once save(false) has returned s: a throw deletes the object.
CreateSaved(s, env) ==
    IF s.res # "ok" THEN After(Destruct(s.fs, s.pend, s.st, env.td), s.res, {})
    ELSE After(s, "ok", {})

\* A create() that sets the version and does not save.
CreateVersionedUnsaved(v, env) ==
    IF v.res # "ok" THEN After(Destruct(v.fs, v.pend, v.st, env.td), v.res, {})
    ELSE After(v, "ok", {})

\* create() once setFileVersion has returned v: a throw deletes the object.
CreateVersioned(v, env) ==
    IF v.res # "ok" THEN After(Destruct(v.fs, v.pend, v.st, env.td), v.res, {})
    ELSE CreateSaved(Save(v.fs, v.pend, v.st, FALSE, env.save), env)

\* A create() that takes version 0 for no version.
CreateOpenedAboveZero(o, version, env) ==
    IF o.res # "ok" THEN After(o, o.res, {})
    ELSE IF ~(version > 0) THEN After(o, "ok", {})
    ELSE CreateVersioned(SetFileVersion(o.fs, o.pend, o.st, version, env.sfv), env)

\* create() once the constructor has returned o.
CreateOpened(o, version, env) ==
    IF o.res # "ok" THEN After(o, o.res, {})
    ELSE IF ~(version > -1) THEN After(o, "ok", {})
    ELSE CreateVersioned(SetFileVersion(o.fs, o.pend, o.st, version, env.sfv), env)

\* create() once the file at filepath is removed (f): the empty backup file
\* and the constructor.
CreateBackup(f, pd, filepath, version, env) ==
    IF ~env.mk THEN Result(f, pd, NoStore, "IOError", {})
    ELSE CreateOpened(Construct([f EXCEPT ![Tilde(filepath)] = EmptyContent], pd, filepath,
                                TRUE, FALSE, env.open),
                      version, env)

\* IniFile::create(filepath, version).  env: the outcome of removing an
\* existing file (rm0), of mkPath and of creating the empty backup file
\* (mk), and the outcomes inside the constructor (open), setFileVersion
\* (sfv), save (save) and, when one of the two throws, the destructor (td).
Create(f, pd, filepath, version, env) ==
    IF Exists(f, filepath) /\ ~RemoveResult(f, filepath, env.rm0)
    THEN Result(f, pd, NoStore, "IOError", {})
    ELSE CreateBackup(RemoveFile(f, filepath, env.rm0), pd, filepath, version, env)

(***************************************************************************)
(* Outcomes of the environment.  A call that throws ends the method, so    *)
(* the outcomes of the calls after it are fixed to success.                *)
(***************************************************************************)
OpenOk == [rm |-> TRUE, cp |-> TRUE, acq |-> TRUE, fl |-> TRUE]
SfvOk == [acq |-> TRUE, fl |-> TRUE]
SaveOk == [fl |-> 0, rm |-> TRUE, cp |-> TRUE, crash |-> FALSE]
DestructOk == [rm1 |-> TRUE, rm2 |-> TRUE]

OpenThrows(e) == ~e.rm \/ ~e.cp \/ ~e.acq

OpenEnvs ==
    {e \in [rm : BOOLEAN, cp : BOOLEAN, acq : BOOLEAN, fl : BOOLEAN] :
        /\ ~e.rm => (e.cp /\ e.acq)
        /\ ~e.cp => e.acq
        /\ OpenThrows(e) => e.fl}

SfvEnvs == {e \in [acq : BOOLEAN, fl : BOOLEAN] : ~e.acq => e.fl}

SaveEnvs ==
    {e \in [fl : 0..MaxHandles, rm : BOOLEAN, cp : BOOLEAN, crash : BOOLEAN] :
        /\ e.fl # 0 => (e.rm /\ e.cp /\ ~e.crash)
        /\ ~e.rm => (e.cp /\ ~e.crash)
        /\ e.crash => e.cp}

RemoveEnvs == [rm1 : BOOLEAN, rm2 : BOOLEAN, rm3 : BOOLEAN]

DestructEnvs == [rm1 : BOOLEAN, rm2 : BOOLEAN]

CreateEnvs ==
    {e \in [rm0 : BOOLEAN, mk : BOOLEAN, open : OpenEnvs, sfv : SfvEnvs,
            save : {x \in SaveEnvs : ~x.crash}, td : DestructEnvs] :
        /\ ~e.rm0 => e.mk
        /\ (~e.rm0 \/ ~e.mk) => e.open = OpenOk
        /\ (~e.rm0 \/ ~e.mk \/ OpenThrows(e.open)) => (e.sfv = SfvOk /\ e.save = SaveOk)
        /\ ~e.sfv.acq => e.save = SaveOk
        /\ (e.sfv.acq /\ e.save = SaveOk) => e.td = DestructOk}

(***************************************************************************)
(* State                                                                   *)
(***************************************************************************)
VARIABLES
    fs,      \* the file system: path -> content or NoFile
    pend,    \* per temporary file: the writes QSettings has not synced yet
    stores,  \* the IniFile objects of the process
    last,    \* the last call: its arguments, its result and the steps it took
    owed,    \* per object: the handles acquired and not yet released with a clean sync
    trip,    \* progress of the sequence: create(v), save(true), open
    draft    \* progress of the sequence: setValue, save(false), save(true)

vars == <<fs, pend, stores, last, owed, trip, draft>>

Call(op, s, flag, ro, v, h, r) ==
    [op |-> op, s |-> s, flag |-> flag, ro |-> ro, v |-> v, h |-> h,
     res |-> r.res, did |-> r.did, failed |-> {}]

NoCall ==
    [op |-> "none", s |-> 1, flag |-> FALSE, ro |-> FALSE, v |-> 0, h |-> 0,
     res |-> "ok", did |-> {}, failed |-> {}]

NoTrip == [phase |-> 0, v |-> 0]

\* canon: the original file before the value was set; val: the text set.
NoDraft == [phase |-> 0, canon |-> NoFile, val |-> <<>>]

\* The files a run starts from: the original missing or with a version no
\* call of the run writes, the backup missing or without a version, and no
\* file in the temporary directory.
InitOriginals == {NoFile, Content(NumberToStr(MaxVersion + 1))}
InitBackups == {NoFile, EmptyContent}

Init ==
    /\ fs \in {f \in [AllPaths -> InitOriginals \cup InitBackups] :
                 /\ f[Path] \in InitOriginals
                 /\ f[Tilde(Path)] \in InitBackups
                 /\ f[TmpPathOf(Path)] = NoFile
                 /\ f[TmpPathOf(Tilde(Path))] = NoFile}
    /\ pend = [p \in TmpPaths |-> NoPending]
    /\ stores = [s \in PeerIds |-> NoStore]
    /\ last = NoCall
    /\ owed = [s \in PeerIds |-> {}]
    /\ trip = NoTrip
    /\ draft = NoDraft

Apply(s, r) ==
    /\ fs' = r.fs
    /\ pend' = r.pend
    /\ stores' = [stores EXCEPT ![s] = r.st]

\* The files remove() calls QFile::remove on, given that the file exists.
RemoveAttempts(st) ==
    {st.mFilepath, Tilde(st.mFilepath)}
        \cup (IF st.mSettings = <<>> THEN {st.mTmpFilepath} ELSE {})

\* The existing files whose QFile::remove in remove() fails.
RemoveFailed(f, st, env) ==
    IF st.mIsReadOnly THEN {}
    ELSE {p \in RemoveAttempts(st) :
            /\ Exists(f, p)
            /\ \/ p = st.mFilepath /\ ~env.rm1
               \/ p = Tilde(st.mFilepath) /\ ~env.rm2
               \/ p = st.mTmpFilepath /\ ~env.rm3}

\* The files the destructor calls QFile::remove on.
DestructAttempts(st) ==
    {st.mTmpFilepath} \cup (IF ~st.mIsReadOnly THEN {Tilde(st.mFilepath)} ELSE {})

\* The existing files whose QFile::remove in the destructor fails.
DestructFailed(f, st, env) ==
    {p \in DestructAttempts(st) :
        /\ Exists(f, p)
        /\ \/ p = st.mTmpFilepath /\ ~env.rm1
           \/ p = Tilde(st.mFilepath) /\ ~env.rm2}

\* The handle of st whose sync in save() ends with a status that is not
\* clean: its place in mSettings, 0 when every sync is clean or none runs.
FailedFlush(st, fl) == IF ~st.mIsReadOnly /\ fl \in 1..Len(st.mSettings) THEN fl ELSE 0

\* A handle acquired inside a method and released there stays owed exactly
\* when its sync was not clean.
OwedAfter(s, acq, fl) ==
    IF acq /\ ~fl THEN owed[s] \cup {FreshId(stores[s].mSettings)} ELSE owed[s]

\* The handles create() leaves owed: the constructor's when its sync was not
\* clean, and after it setFileVersion's, when it ran, likewise.
OwedAfterCreate(version, env) ==
    LET first == IF ~env.open.fl THEN {1} ELSE {}
    IN first \cup (IF version > -1 /\ ~env.sfv.fl THEN {Cardinality(first) + 1} ELSE {})

(***************************************************************************)
(* Actions: one per method of IniFile, and setValue on a handle            *)
(***************************************************************************)
DoOpen(s, restore, readOnly, env) ==
    /\ ~stores[s].alive
    /\ LET r == Construct(fs, pend, Path, restore, readOnly, env)
       IN /\ Apply(s, r)
          /\ last' = Call("open", s, restore, readOnly, 0, 0, r)
          /\ owed' = [owed EXCEPT ![s] = IF r.res = "ok" THEN OwedAfter(s, env.acq, env.fl) ELSE {}]
          /\ trip' = IF trip.phase = 2 /\ r.res = "ok" THEN [trip EXCEPT !.phase = 3] ELSE NoTrip
    /\ draft' = NoDraft

DoDestroy(s, env) ==
    /\ stores[s].alive
    /\ LET r == Destruct(fs, pend, stores[s], env)
       IN /\ Apply(s, r)
          /\ last' = [Call("destroy", s, FALSE, stores[s].mIsReadOnly, LeakCount(stores[s]), 0, r)
                         EXCEPT !.failed = DestructFailed(fs, stores[s], env)]
    /\ owed' = [owed EXCEPT ![s] = {}]
    /\ trip' = IF trip.phase = 2 THEN trip ELSE NoTrip
    /\ draft' = NoDraft

DoCreateQSettings(s, ok) ==
    /\ stores[s].alive
    /\ Len(stores[s].mSettings) < MaxHandles
    /\ LET r == CreateQSettings(fs, pend, stores[s], ok)
       IN /\ Apply(s, r)
          /\ last' = Call("acquire", s, FALSE, FALSE, 0, FreshId(stores[s].mSettings), r)
    /\ owed' = [owed EXCEPT ![s] = IF ok THEN @ \cup {FreshId(stores[s].mSettings)} ELSE @]
    /\ trip' = NoTrip
    /\ draft' = NoDraft

DoReleaseQSettings(s, i, ok) ==
    /\ stores[s].alive
    /\ i \in 1..Len(stores[s].mSettings)
    /\ LET r == ReleaseQSettings(fs, pend, stores[s], i, ok)
       IN /\ Apply(s, r)
          /\ last' = Call("release", s, FALSE, FALSE, 0, stores[s].mSettings[i], r)
    /\ owed' = [owed EXCEPT ![s] = IF ok THEN @ \ {stores[s].mSettings[i]} ELSE @]
    /\ trip' = NoTrip
    /\ draft' = NoDraft

DoSetValue(s, i, version) ==
    /\ stores[s].alive
    /\ i \in 1..Len(stores[s].mSettings)
    /\ pend[stores[s].mTmpFilepath] # <<NumberToStr(version)>>
    /\ LET r == Result(fs, SetVersionKey(pend, stores[s].mTmpFilepath, NumberToStr(version)),
                       stores[s], "ok", {})
       IN /\ Apply(s, r)
          /\ last' = Call("setValue", s, FALSE, FALSE, version, stores[s].mSettings[i], r)
    /\ trip' = NoTrip
    /\ draft' = IF stores[s].mIsReadOnly THEN NoDraft
                ELSE [phase |-> 1, canon |-> fs[stores[s].mFilepath], val |-> NumberToStr(version)]
    /\ UNCHANGED owed

DoSetFileVersion(s, version, env) ==
    /\ stores[s].alive
    /\ Len(stores[s].mSettings) < MaxHandles
    /\ LET r == SetFileVersion(fs, pend, stores[s], version, env)
       IN /\ Apply(s, r)
          /\ last' = Call("setFileVersion", s, FALSE, FALSE, version, 0, r)
    /\ owed' = [owed EXCEPT ![s] = OwedAfter(s, env.acq, env.fl)]
    /\ trip' = NoTrip
    /\ draft' = NoDraft

DoRemove(s, env) ==
    /\ stores[s].alive
    /\ LET r == Remove(fs, pend, stores[s], env)
       IN /\ Apply(s, r)
          /\ last' = [Call("remove", s, FALSE, FALSE, 0, 0, r)
                         EXCEPT !.failed = RemoveFailed(fs, stores[s], env)]
    /\ trip' = NoTrip
    /\ draft' = NoDraft
    /\ UNCHANGED owed

DoSave(s, toOriginal, env) ==
    /\ stores[s].alive
    /\ LET r == Save(fs, pend, stores[s], toOriginal, env)
       IN /\ Apply(s, r)
          /\ last' = Call("save", s, toOriginal, FALSE, 0, FailedFlush(stores[s], env.fl), r)
          /\ owed' = [owed EXCEPT ![s] = IF r.res = "crash" THEN {} ELSE @]
          /\ trip' = IF r.res = "ok" /\ toOriginal /\ trip.phase = 1
                     THEN [trip EXCEPT !.phase = 2]
                     ELSE NoTrip
          /\ draft' = IF r.res = "ok" /\ ~toOriginal /\ draft.phase = 1
                      THEN [draft EXCEPT !.phase = 2]
                      ELSE IF r.res = "ok" /\ toOriginal /\ draft.phase = 2
                      THEN [draft EXCEPT !.phase = 3]
                      ELSE NoDraft

DoCreate(s, version, env) ==
    /\ ~stores[s].alive
    /\ LET r == Create(fs, pend, Path, version, env)
       IN /\ Apply(s, r)
          /\ last' = Call("create", s, FALSE, FALSE, version, 0, r)
          /\ owed' = [owed EXCEPT ![s] = IF r.res = "ok" THEN OwedAfterCreate(version, env) ELSE {}]
          /\ trip' = IF r.res = "ok" THEN [phase |-> 1, v |-> version] ELSE NoTrip
    /\ draft' = NoDraft

Next ==
    \E s \in StoreIds :
        \/ \E restore \in BOOLEAN, readOnly \in BOOLEAN, env \in OpenEnvs :
              DoOpen(s, restore, readOnly, env)
        \/ \E env \in DestructEnvs : DoDestroy(s, env)
        \/ \E ok \in BOOLEAN : DoCreateQSettings(s, ok)
        \/ \E i \in HandleIds, ok \in BOOLEAN : DoReleaseQSettings(s, i, ok)
        \/ \E i \in HandleIds, version \in 0..MaxVersion : DoSetValue(s, i, version)
        \/ \E version \in 0..MaxVersion, env \in SfvEnvs : DoSetFileVersion(s, version, env)
        \/ \E env \in RemoveEnvs : DoRemove(s, env)
        \/ \E toOriginal \in BOOLEAN, env \in SaveEnvs : DoSave(s, toOriginal, env)
        \/ \E version \in Versions, env \in CreateEnvs : DoCreate(s, version, env)

Spec == Init /\ [][Next]_vars

(***************************************************************************)
(* Properties.  In an action formula the unprimed variables are the state  *)
(* before the call and the primed ones the state after it; last' names the *)
(* call.                                                                   *)
(***************************************************************************)
\* The object a call is made on, before the call.
Callee == stores[last'.s]

\* The text of meta/file_version in the temporary file of st once every
\* pending write is synced.
Flushed(f, pd, st) ==
    IF pd[st.mTmpFilepath] # NoPending THEN Content(pd[st.mTmpFilepath][1]) ELSE f[st.mTmpFilepath]

\* C1: every save(toOriginal) on an object that is not read-only, whatever
\* the outcomes of its sync, remove and copy calls, either returns and then
\* the target (mFilepath if toOriginal, else mFilepath~) exists and equals
\* the temporary file, which holds every write of the registered handles,
\* or throws the I/O error and then the target is as before the call or
\* absent.
C1_SaveContract ==
    [][(last'.op = "save" /\ ~Callee.mIsReadOnly /\ last'.res # "crash") =>
          LET target == IF last'.flag THEN Callee.mFilepath ELSE Tilde(Callee.mFilepath)
              tmp == Callee.mTmpFilepath
          IN \/ /\ last'.res = "ok"
                /\ Exists(fs', target)
                /\ fs'[target] = fs'[tmp]
                /\ Callee.mSettings # <<>> =>
                      (pend'[tmp] = NoPending /\ fs'[tmp] = Flushed(fs, pend, Callee))
             \/ /\ last'.res = "IOError"
                /\ fs'[target] = fs[target] \/ ~Exists(fs', target)]_vars

\* A save(true) has returned on an object with a registered handle, and the
\* original file is the temporary file's copy.
C1_Witness ==
    /\ last.op = "save" /\ last.flag /\ last.res = "ok"
    /\ stores[last.s].mSettings # <<>>
    /\ Exists(fs, Path)
    /\ fs[Path] = fs[stores[last.s].mTmpFilepath]
    /\ fs[Path] = Content(NumberToStr(0))

\* C2: after a value is set through a handle of an object that is not
\* read-only and save(false) returns, the original file is (in existence
\* and content) as before the value was set and the backup holds the value;
\* after a save(true) that then returns, the original file holds the value.
C2_DraftIsolation ==
    /\ draft.phase = 2 =>
          /\ fs[Path] = draft.canon
          /\ fs[Tilde(Path)] = Content(draft.val)
    /\ draft.phase = 3 => fs[Path] = Content(draft.val)

\* The three calls were made, and the value set is not what the original
\* file held before.
C2_Witness ==
    /\ draft.phase = 3
    /\ draft.canon # Content(draft.val)
    /\ fs[Path] = Content(draft.val)

\* C3: on a read-only object save(true), save(false) and remove() throw the
\* logic error, and the call changes no file, syncs no handle and removes
\* none from mSettings.
C3_ReadOnlyEnforcement ==
    [][(last'.op \in {"save", "remove"} /\ Callee.mIsReadOnly) =>
          /\ last'.res = "LogicError"
          /\ last'.did = {}
          /\ fs' = fs
          /\ pend' = pend
          /\ stores' = stores]_vars

\* save() was refused on a read-only object that has a registered handle
\* with a write to sync.
C3_Witness ==
    /\ last.op = "save" /\ last.res = "LogicError"
    /\ stores[last.s].alive /\ stores[last.s].mIsReadOnly
    /\ stores[last.s].mSettings # <<>>
    /\ pend[stores[last.s].mTmpFilepath] # NoPending
    /\ Exists(fs, Tilde(Path))

\* C4: when in save(toOriginal) the sync of a registered handle ends with a
\* status that is not clean, save throws the I/O error, the original file and
\* the backup (the target among them) are as before the call, and neither
\* the remove nor the copy is executed.
C4_FlushFailureAborts ==
    [][(last'.op = "save" /\ last'.h # 0) =>
          /\ last'.res = "IOError"
          /\ fs'[Path] = fs[Path]
          /\ fs'[Tilde(Path)] = fs[Tilde(Path)]
          /\ "delete" \notin last'.did
          /\ "copy" \notin last'.did]_vars

\* The sync of the second handle failed in a save() whose target exists.
C4_Witness ==
    /\ last.op = "save" /\ last.h = 2 /\ last.res = "IOError"
    /\ Exists(fs, IF last.flag THEN Path ELSE Tilde(Path))

\* C5: mSettings holds exactly the handles that were acquired and have not
\* had a release whose sync was clean, each once; a release whose sync was
\* not clean leaves its handle in mSettings, and save() and remove() take
\* no handle out of it.
C5_RegistryAccounting ==
    /\ [](\A s \in StoreIds : stores[s].alive =>
             /\ Range(stores[s].mSettings) = owed[s]
             /\ Len(stores[s].mSettings) = Cardinality(owed[s]))
    /\ [][/\ (last'.op = "release" /\ last'.res = "retained") =>
                stores'[last'.s].mSettings = Callee.mSettings
          /\ (last'.op = "release" /\ last'.res = "ok") =>
                last'.h \notin Range(stores'[last'.s].mSettings)
          /\ (last'.op \in {"save", "remove"} /\ last'.res # "crash") =>
                stores'[last'.s].mSettings = Callee.mSettings]_vars

\* A release whose sync was not clean has left its handle among two.
C5_Witness ==
    /\ last.op = "release" /\ last.res = "retained"
    /\ last.h \in Range(stores[last.s].mSettings)
    /\ owed[last.s] = {1, 2}

\* C6: a constructor that returns has copied to its temporary file, and read
\* mFileVersion from, the backup when restore is set and the backup exists,
\* and the original file otherwise (restore not set, or no backup).
C6_RestorePreference ==
    [][(last'.op = "open" /\ last'.res = "ok") =>
          LET src == IF last'.flag /\ Exists(fs, Tilde(Path)) THEN Tilde(Path) ELSE Path
          IN /\ fs'[stores'[last'.s].mTmpFilepath] = fs[src]
             /\ stores'[last'.s].mFileVersion = ReadFileVersion(fs[src].ver)]_vars

\* Both files exist with different versions, and the object opened with
\* restore set has the backup's.
C6_Witness ==
    /\ last.op = "open" /\ last.flag /\ last.res = "ok"
    /\ Exists(fs, Path) /\ Exists(fs, Tilde(Path))
    /\ ReadFileVersion(fs[Path].ver) # ReadFileVersion(fs[Tilde(Path)].ver)
    /\ stores[last.s].mFileVersion = ReadFileVersion(fs[Tilde(Path)].ver)
    /\ stores[last.s].mFileVersion = 0

\* C7 as stated: for every version v, after create(path, v), save(true) and
\* a constructor on the path, none of them throwing, mFileVersion is v.
C7_RoundTripEveryVersion ==
    trip.phase = 3 => stores[last.s].mFileVersion = trip.v

\* C7, amended: the same for every version v >= -1.
C7_RoundTrip ==
    (trip.phase = 3 /\ trip.v >= UnknownVersion) => stores[last.s].mFileVersion = trip.v

\* The three calls were made with a version that create() writes.
C7_Witness ==
    /\ trip.phase = 3 /\ trip.v = 0
    /\ last.op = "open"
    /\ stores[last.s].mFileVersion = 0

\* C8 as stated: whenever mSettings of an object is not empty, its temporary
\* file exists.
C8_ShadowExistsWhileHandles ==
    \A s \in StoreIds :
        (stores[s].alive /\ stores[s].mSettings # <<>>) => Exists(fs, stores[s].mTmpFilepath)

\* C9 as stated: when the process dies in save(toOriginal) after the remove
\* of the target and before the copy, the temporary file holds the synced
\* content, the original file is unchanged if toOriginal is not set, and the
\* next constructor on the path returns, whatever its restore flag.
C9_CrashRecoverable ==
    [][(/\ last'.op = "save" /\ last'.res = "crash"
        /\ Exists(fs, IF last'.flag THEN Path ELSE Tilde(Path))) =>
          /\ fs'[Callee.mTmpFilepath] = Flushed(fs, pend, Callee)
          /\ ~last'.flag => fs'[Path] = fs[Path]
          /\ \A restore \in BOOLEAN :
                Construct(fs', pend', Path, restore, FALSE, OpenOk).res = "ok"]_vars

C11_NotFound ==
    [][last'.op = "open" =>
          LET src == IF last'.flag /\ Exists(fs, Tilde(Path)) THEN Tilde(Path) ELSE Path
          IN /\ last'.res = "NotFound" <=> ~Exists(fs, src)
             /\ last'.res = "NotFound" => (fs' = fs /\ pend' = pend)]_vars

\* The constructor has thrown "not found" with restore set, and a stale
\* temporary file is there.
C11_Witness ==
    /\ last.op = "open" /\ last.flag /\ last.res = "NotFound"
    /\ ~Exists(fs, Path) /\ ~Exists(fs, Tilde(Path))
    /\ \E p \in TmpPaths : Exists(fs, p)

\* Every file but the temporary file of the object called is as before.
OnlyShadowTouched == \A p \in AllPaths \ {Callee.mTmpFilepath} : fs'[p] = fs[p]

\* The calls that write through a handle or sync one.
HandleCalls == {"acquire", "setValue", "release", "setFileVersion"}

\* C12 as stated: the original file changes (in existence or content) only
\* in the remove-and-copy of save(true), and what is written through
\* handles reaches the temporary file alone.
C12_OnlySaveChangesCanonical ==
    [][/\ fs'[Path] # fs[Path] =>
             (last'.op = "save" /\ last'.flag /\ last'.did # {"flush"})
       /\ last'.op \in HandleCalls => OnlyShadowTouched]_vars

\* C12, amended: the original file changes only in the remove-and-copy of
\* save(true), in remove() and in create(); the constructor, createQSettings,
\* a write through a handle, releaseQSettings, setFileVersion, the syncs of
\* save and the destructor leave it as it is, and what is written through
\* handles reaches the temporary file alone.
C12_CanonicalFrame ==
    [][/\ fs'[Path] # fs[Path] =>
             \/ last'.op = "save" /\ last'.flag /\ last'.did # {"flush"}
             \/ last'.op \in {"remove", "create"}
       /\ last'.op \in HandleCalls => OnlyShadowTouched
       /\ (last'.op = "save" /\ last'.did = {"flush"}) => OnlyShadowTouched]_vars

\* setFileVersion has written a version to the temporary file that the
\* existing original file does not have.
C12_Witness ==
    /\ last.op = "setFileVersion" /\ last.res = "ok"
    /\ Exists(fs, Path)
    /\ fs[stores[last.s].mTmpFilepath] = Content(NumberToStr(last.v))
    /\ fs[Path] # Content(NumberToStr(last.v))

\* C13: after a remove() on an object that is not read-only in which no
\* QFile::remove fails, mFilepath and mFilepath~ do not exist; with an empty
\* mSettings at the call the temporary file does not exist either, and with
\* handles in mSettings the temporary file and mSettings are as before.
C13_RemoveEffect ==
    [][(last'.op = "remove" /\ ~Callee.mIsReadOnly /\ last'.failed = {}) =>
          /\ ~Exists(fs', Callee.mFilepath)
          /\ ~Exists(fs', Tilde(Callee.mFilepath))
          /\ Callee.mSettings = <<>> => ~Exists(fs', Callee.mTmpFilepath)
          /\ Callee.mSettings # <<>> =>
                /\ fs'[Callee.mTmpFilepath] = fs[Callee.mTmpFilepath]
                /\ stores'[last'.s].mSettings = Callee.mSettings]_vars

\* remove() has deleted both files and kept the temporary file of an object
\* with a handle.
C13_Witness ==
    /\ last.op = "remove" /\ last.res = "ok" /\ last.failed = {}
    /\ stores[last.s].mSettings # <<>>
    /\ Exists(fs, stores[last.s].mTmpFilepath)
    /\ ~Exists(fs, Path) /\ ~Exists(fs, Tilde(Path))

\* C14: remove() on an object that is not read-only throws the I/O error
\* exactly when a QFile::remove it calls on an existing file fails; after a
\* failure the other files are still removed, so that the files left are the
\* ones whose removal failed, and a missing file is no failure: a remove()
\* right after a remove() that returned returns and changes nothing.
C14_RemoveFailure ==
    [][(last'.op = "remove" /\ ~Callee.mIsReadOnly) =>
          /\ last'.res = "IOError" <=> last'.failed # {}
          /\ last'.res \in {"ok", "IOError"}
          /\ {p \in RemoveAttempts(Callee) : Exists(fs', p)} = last'.failed
          /\ \A p \in AllPaths \ RemoveAttempts(Callee) : fs'[p] = fs[p]
          /\ (last.op = "remove" /\ last.res = "ok" /\ last.s = last'.s) =>
                (last'.res = "ok" /\ fs' = fs)]_vars

\* The removal of mFilepath has failed and the two other files are gone.
C14_Witness ==
    /\ last.op = "remove" /\ last.res = "IOError"
    /\ last.failed = {Path}
    /\ stores[last.s].mSettings = <<>>
    /\ ~Exists(fs, Tilde(Path)) /\ ~Exists(fs, stores[last.s].mTmpFilepath)

\* C15: the destructor of an object with n handles left in mSettings never
\* throws; it deletes all n (no object and no handle is left), its warning
\* counts exactly n, the handles acquired and not released with a clean
\* sync, and it still removes the temporary file; with n = 0 it counts none.
C15_LeakDetection ==
    [][last'.op = "destroy" =>
          /\ last'.res = "ok"
          /\ ~stores'[last'.s].alive
          /\ stores'[last'.s].mSettings = <<>>
          /\ pend'[Callee.mTmpFilepath] = NoPending
          /\ last'.v = Cardinality(owed[last'.s])
          /\ "delete" \in last'.did
          /\ Callee.mTmpFilepath \notin last'.failed => ~Exists(fs', Callee.mTmpFilepath)]_vars

\* An object with one handle left was destroyed, and no temporary file is
\* left.
C15_Witness ==
    /\ last.op = "destroy" /\ last.v = 1 /\ last.failed = {}
    /\ ~stores[last.s].alive
    /\ \A p \in TmpPaths : ~Exists(fs, p)

\* C16: the destructor calls QFile::remove on the temporary file in every
\* case, and on mFilepath~ exactly when the object is not read-only: the
\* files left among the two are the ones whose removal failed, the backup of
\* a read-only object is as before, and mFilepath is never changed.
C16_TeardownFiles ==
    [][last'.op = "destroy" =>
          /\ Callee.mTmpFilepath \notin last'.failed => ~Exists(fs', Callee.mTmpFilepath)
          /\ (~Callee.mIsReadOnly /\ Tilde(Callee.mFilepath) \notin last'.failed) =>
                ~Exists(fs', Tilde(Callee.mFilepath))
          /\ Callee.mIsReadOnly => fs'[Tilde(Callee.mFilepath)] = fs[Tilde(Callee.mFilepath)]
          /\ \A p \in last'.failed : fs'[p] = fs[p]
          /\ fs'[Callee.mFilepath] = fs[Callee.mFilepath]
          /\ \A p \in TmpPaths \ {Callee.mTmpFilepath} : fs'[p] = fs[p]]_vars

\* A read-only object was destroyed and the backup with a version, written
\* by save(false), is still there.
C16_Witness ==
    /\ last.op = "destroy" /\ last.ro /\ last.failed = {}
    /\ fs[Tilde(Path)] = Content(NumberToStr(0))
    /\ \A p \in TmpPaths : ~Exists(fs, p)

\* C17 as stated: when setFileVersion(v) returns, mFileVersion is v, the
\* temporary file holds v and the handle it acquired is out of mSettings;
\* when it throws, mFileVersion is not left at a version the temporary file
\* does not hold.
C17_SetFileVersionTransactional ==
    [][last'.op = "setFileVersion" =>
          /\ last'.res = "ok" =>
                /\ stores'[last'.s].mFileVersion = last'.v
                /\ fs'[Callee.mTmpFilepath] = Content(NumberToStr(last'.v))
                /\ stores'[last'.s].mSettings = Callee.mSettings
          /\ last'.res # "ok" =>
                \/ stores'[last'.s].mFileVersion = Callee.mFileVersion
                \/ fs'[Callee.mTmpFilepath] =
                      Content(NumberToStr(stores'[last'.s].mFileVersion))]_vars

\* C18: after a create(path, version) with version >= 0 that returns, no
\* file is at the path, the backup exists and holds version, the object is
\* not read-only and its mFileVersion is version; a file appears at the
\* path only in a save(true); and a create that throws leaves no object.
C18_CreateDraft ==
    [][/\ (last'.op = "create" /\ last'.v >= 0 /\ last'.res = "ok") =>
             /\ ~Exists(fs', Path)
             /\ fs'[Tilde(Path)] = Content(NumberToStr(last'.v))
             /\ stores'[last'.s].alive
             /\ ~stores'[last'.s].mIsReadOnly
             /\ stores'[last'.s].mFileVersion = last'.v
       /\ (last'.op = "create" /\ last'.res # "ok") => ~stores'[last'.s].alive
       /\ (~Exists(fs, Path) /\ Exists(fs', Path)) => (last'.op = "save" /\ last'.flag)]_vars

\* create(path, 0) has returned on a path where a file was.
C18_Witness ==
    /\ last.op = "create" /\ last.v = 0 /\ last.res = "ok"
    /\ ~Exists(fs, Path)
    /\ fs[Tilde(Path)] = Content(NumberToStr(0))
    /\ stores[last.s].alive /\ stores[last.s].mFileVersion = 0

\* C19 as stated: whenever the constructor returns, mSettings is empty,
\* whatever the status after the sync of the handle it read the version with.
C19_OpenRegistryEmpty ==
    [][(last'.op = "open" /\ last'.res = "ok") => stores'[last'.s].mSettings = <<>>]_vars

(***************************************************************************)
(* Two objects of one process on the same path.  Every call of the         *)
(* environment succeeds here: what happens to one object is the other      *)
(* object's doing alone.                                                   *)
(***************************************************************************)
NextPeers ==
    \E s \in PeerIds :
        \/ \E restore \in BOOLEAN, readOnly \in BOOLEAN : DoOpen(s, restore, readOnly, OpenOk)
        \/ DoDestroy(s, DestructOk)
        \/ \E toOriginal \in BOOLEAN : DoSave(s, toOriginal, SaveOk)

SpecPeers == Init /\ [][NextPeers]_vars

\* C20 as stated: with two objects of one process on the same path, the
\* constructor and the destructor of one leave the temporary file of the
\* other, live one as it is, and a save(true) on a live object finds its
\* temporary file and does not leave mFilepath removed and not written.
C20_PeerIsolation ==
    [][/\ last'.op \in {"open", "destroy"} =>
             \A t \in PeerIds \ {last'.s} :
                 stores[t].alive => fs'[stores[t].mTmpFilepath] = fs[stores[t].mTmpFilepath]
       /\ (last'.op = "save" /\ last'.flag /\ ~Callee.mIsReadOnly) =>
             /\ Exists(fs, Callee.mTmpFilepath)
             /\ Exists(fs, Path) => Exists(fs', Path)]_vars

\* A save(true) has removed mFilepath and thrown, its temporary file gone
\* with the other object: the backup still holds the version the original
\* file had.
C20_Witness ==
    /\ last.op = "save" /\ last.flag /\ last.res = "IOError"
    /\ stores[last.s].alive
    /\ ~Exists(fs, stores[last.s].mTmpFilepath)
    /\ ~Exists(fs, Path)
    /\ fs[Tilde(Path)] = Content(NumberToStr(MaxVersion + 1))

====
